---- MODULE Spec2Model ----
(***************************************************************************)
(* minitimer: the three-wheel timing wheel (src/timer/wheel.rs), its slots *)
(* (src/timer/slot.rs) and the tasks and frequency states it schedules     *)
(* (src/task/task.rs, src/task/frequency.rs).                              *)
(*                                                                         *)
(* Option<T> is modelled as a sequence: None is <<>>, Some(x) is <<x>>.    *)
(* HashMap / DashMap are functions whose DOMAIN is the set of keys.        *)
(* A call that panics (unwrap on None, assert!) sets self.panicked and     *)
(* stops where the panic unwinds.                                          *)
(***************************************************************************)
EXTENDS Integers, Sequences, FiniteSets, TLC

\* ------------------------------------------------------------------ bounds
\* task ids 1..NumTasks
NumTasks == 2
\* the clock value at which tasks are built
Epoch == 1000
\* add_task is called at Epoch .. Epoch + MaxAge
MaxAge == 1
\* ticks taken in Spec
MaxTicks == 2
\* add_task calls made in Spec
MaxAdds == 2
\* ticks taken in SpecClock: more than the 86400 of a day
MaxClockTicks == 86500
\* ticks taken after the add_task of SpecFire
MaxFireTicks == 135
\* ticks of SpecDay: a day and the ticks to the first hour cascade
MaxDayTicks == 86500
\* largest period and largest count of the frequencies of SpecFreq, the
\* number of calls made on one FrequencyState, and the ticks of SpecFreq
MaxPeriod == 3
MaxCount == 2
MaxCalls == 4
MaxFreqTicks == 3
\* seconds by which add_task is late in SpecLate
MaxLate == 2
\* ticks of SpecThreads
MaxThreadTicks == 2

TaskIds == 1..NumTasks

\* --------------------------------------------------------- Option and maps
None == <<>>

Some(x) == <<x>>

is_some(o) == o # <<>>

unwrap(o) == o[1]

EmptyMap == [k \in {} |-> 0]

\* HashMap::insert / DashMap::insert
map_insert(m, k, v) == [x \in DOMAIN m \cup {k} |-> IF x = k THEN v ELSE m[x]]

\* HashMap::remove / DashMap::remove: the map without the key
map_remove(m, k) == [x \in DOMAIN m \ {k} |-> m[x]]

\* HashMap::get / DashMap::get
map_get(m, k) == IF k \in DOMAIN m THEN Some(m[k]) ELSE None

\* ------------------------------------------------------------- frequency.rs
\* FrequencySeconds
Once(seconds) == [kind |-> "Once", count_down |-> 0, seconds |-> seconds]

Repeated(seconds) == [kind |-> "Repeated", count_down |-> 0, seconds |-> seconds]

CountDown(count_down, seconds) ==
    [kind |-> "CountDown", count_down |-> count_down, seconds |-> seconds]

\* SecondsState = Peekable<StepBy<RangeFrom<u64>>>.  (start..).step_by(step)
\* yields start, start + step, start + 2 step, ... without end: `next` is
\* the value the StepBy yields next.  The Peekable keeps the item a peek
\* has taken from it in `peeked` (None: nothing taken; Some(item), the item
\* an Option<u64>).
SecondsState(start, step) == [next |-> start, step |-> step, peeked |-> None]

\* StepBy<RangeFrom<u64>>::next
StepBy_next(state) ==
    [state |-> [state EXCEPT !.next = @ + state.step], ret |-> Some(state.next)]

\* Peekable::peek: takes the next item from the iterator unless one is kept,
\* keeps it and returns it
Peekable_peek(state) ==
    IF is_some(state.peeked)
    THEN [state |-> state, ret |-> unwrap(state.peeked)]
    ELSE LET n == StepBy_next(state)
         IN  [state |-> [n.state EXCEPT !.peeked = Some(n.ret)], ret |-> n.ret]

\* Peekable::next: the kept item if there is one, else the iterator's next
Peekable_next(state) ==
    IF is_some(state.peeked)
    THEN [state |-> [state EXCEPT !.peeked = None], ret |-> unwrap(state.peeked)]
    ELSE StepBy_next(state)

\* assert!(seconds > 0, ...) fails, or step_by(0) panics
FrequencyState_from_panics(frequency) ==
    \/ frequency.seconds = 0
    \/ frequency.kind = "CountDown" /\ frequency.count_down = 0

\* impl From<FrequencySeconds> for FrequencyState, timestamp() = now
FrequencyState_from(frequency, now) ==
    IF frequency.kind = "CountDown"
    THEN [variant |-> "SecondsCountDown", count |-> frequency.count_down,
          state |-> SecondsState(now + frequency.seconds, frequency.count_down)]
    ELSE [variant |-> "SecondsRepeated", count |-> 0,
          state |-> SecondsState(now + frequency.seconds, frequency.seconds)]

\* peek_alarm_timestamp that calls state.next() where the source calls
\* state.peek()
peek_alarm_timestamp_consumes(frequency) ==
    LET n == Peekable_next(frequency.state)
    IN  [frequency |-> [frequency EXCEPT !.state = n.state], ret |-> n.ret]

\* FrequencyState::peek_alarm_timestamp: state.peek() for both variants; the
\* frequency afterwards and the timestamp
peek_alarm_timestamp(frequency) ==
    LET p == Peekable_peek(frequency.state)
    IN  [frequency |-> [frequency EXCEPT !.state = p.state], ret |-> p.ret]

\* FrequencyState::next_alarm_timestamp: state.next() for both variants
next_alarm_timestamp(frequency) ==
    LET n == Peekable_next(frequency.state)
    IN  [frequency |-> [frequency EXCEPT !.state = n.state], ret |-> n.ret]

\* FrequencyState::down_count
down_count(frequency) ==
    IF frequency.variant = "SecondsCountDown"
    THEN [frequency EXCEPT !.count = IF @ > 0 THEN @ - 1 ELSE 0]
    ELSE frequency

\* ------------------------------------------------------------------ task.rs
\* WheelCascadeGuide::default()
WheelCascadeGuide_default == [sec |-> 0, min |-> None, hour |-> None, round |-> 0]

\* TaskBuilder::spwan_async, for a builder with task_id and frequency
spwan_async(task_id, frequency, now) ==
    [task_id |-> task_id,
     cascade_guide |-> WheelCascadeGuide_default,
     frequency |-> FrequencyState_from(frequency, now)]

\* what a call of TaskBuilder::spwan_async gives its caller: `self.frequency
\* .into()` panics or the function returns Ok(Task { .. }); it has no other
\* return
spwan_async_ret(frequency) ==
    IF FrequencyState_from_panics(frequency) THEN "panic" ELSE "Ok"

\* Task::next_alarm_timestamp
Task_next_alarm_timestamp(task) ==
    LET n == next_alarm_timestamp(task.frequency)
    IN  [task |-> [task EXCEPT !.frequency = n.frequency], ret |-> n.ret]

\* ------------------------------------------------------------------ slot.rs
Slot_new == [task_map |-> EmptyMap]

\* Slot::add_task: insert-or-replace by task_id
Slot_add_task(slot, task) ==
    [slot EXCEPT !.task_map = map_insert(@, task.task_id, task)]

\* Slot::remove_task: the slot afterwards and the removed task
Slot_remove_task(slot, task_id) ==
    [slot |-> [slot EXCEPT !.task_map = map_remove(@, task_id)],
     ret |-> map_get(slot.task_map, task_id)]

\* ----------------------------------------------------------------- wheel.rs
\* Wheel::new: num_slots empty slots at positions 0 .. num_slots - 1, hand 0
Wheel_new(num_slots) ==
    [slots |-> [i \in 0..(num_slots - 1) |-> Slot_new],
     hand |-> 0,
     num_slots |-> num_slots]

\* hand_move without the store that brings the hand back into the wheel
hand_move_no_reset(wheel, step) ==
    IF step = 0
    THEN [wheel |-> wheel, carry |-> None]
    ELSE LET new_hand == wheel.hand + step
             carry == new_hand \div wheel.num_slots
         IN  [wheel |-> [wheel EXCEPT !.hand = new_hand],
              carry |-> IF carry > 0 THEN Some(carry) ELSE None]

\* a hand_move that leaves the hand where it is
hand_move_stays(wheel, step) ==
    [wheel |-> wheel, carry |-> None]

\* Wheel::hand_move: the wheel afterwards and the carry.  fetch_add leaves
\* pre_hand + step in the hand; it is stored back modulo num_slots only on
\* a carry (without one pre_hand + step < num_slots already).
hand_move(wheel, step) ==
    IF step = 0
    THEN [wheel |-> wheel, carry |-> None]
    ELSE LET pre_hand == wheel.hand
             new_hand == pre_hand + step
             carry == new_hand \div wheel.num_slots
         IN  IF carry > 0
             THEN [wheel |-> [wheel EXCEPT !.hand = new_hand % wheel.num_slots],
                   carry |-> Some(carry)]
             ELSE [wheel |-> [wheel EXCEPT !.hand = new_hand],
                   carry |-> None]

\* self.hand.fetch_add(step, Ordering::Relaxed) of hand_move: the wheel
\* afterwards and the value returned
hand_fetch_add(wheel, step) ==
    [wheel |-> [wheel EXCEPT !.hand = @ + step], pre_hand |-> wheel.hand]

\* self.hand.store(new_hand % self.num_slots, Ordering::Relaxed) of hand_move
hand_store(wheel, new_hand) == [wheel EXCEPT !.hand = new_hand % wheel.num_slots]

\* Wheel::hand_position
hand_position(wheel) == wheel.hand

\* Wheel::add_task panics when slots.get_mut(&slot_num) is None
Wheel_add_task_panics(wheel, slot_num) == slot_num \notin DOMAIN wheel.slots

\* Wheel::add_task that also turns the hand to the slot it fills
Wheel_add_task_moves_hand(wheel, task, slot_num) ==
    [wheel EXCEPT !.slots[slot_num] = Slot_add_task(@, task), !.hand = slot_num]

\* Wheel::add_task: slots.get_mut(&slot_num).unwrap().add_task(task)
Wheel_add_task(wheel, task, slot_num) ==
    [wheel EXCEPT !.slots[slot_num] = Slot_add_task(@, task)]

\* Wheel::remove_task: the wheel afterwards and the removed task
Wheel_remove_task(wheel, task_id, slot_num) ==
    IF slot_num \in DOMAIN wheel.slots
    THEN LET r == Slot_remove_task(wheel.slots[slot_num], task_id)
         IN  [wheel |-> [wheel EXCEPT !.slots[slot_num] = r.slot], ret |-> r.ret]
    ELSE [wheel |-> wheel, ret |-> None]

\* MulitWheel::new
MulitWheel_new ==
    [sec_wheel |-> Wheel_new(60),
     min_wheel |-> Wheel_new(60),
     hour_wheel |-> Wheel_new(24),
     task_tracker_map |-> EmptyMap,
     panicked |-> FALSE]

\* MulitWheel::get_wheel_positions
get_wheel_positions(self) ==
    <<self.sec_wheel.hand, self.min_wheel.hand, self.hour_wheel.hand>>

\* the loop of cascade_minute_tasks_internal over slot.task_map.into_values().
\* The keys of one task_map are distinct, so the order of the iteration does
\* not change the result; CHOOSE fixes one.
RECURSIVE cascade_minute_loop(_, _)
cascade_minute_loop(self, task_map) ==
    IF DOMAIN task_map = {} \/ self.panicked
    THEN self
    ELSE LET id == CHOOSE i \in DOMAIN task_map : TRUE
             task == task_map[id]
             slot_num == task.cascade_guide.sec
         IN  IF Wheel_add_task_panics(self.sec_wheel, slot_num)
             THEN [self EXCEPT !.panicked = TRUE]
             ELSE cascade_minute_loop(
                      [self EXCEPT !.sec_wheel = Wheel_add_task(@, task, slot_num)],
                      map_remove(task_map, id))

\* cascade_minute_tasks_internal that does not put a fresh slot in the place
\* of the one it took out
cascade_minute_tasks_internal_no_insert(self) ==
    LET hand == self.min_wheel.hand
        slot == map_get(self.min_wheel.slots, hand)
        removed == [self EXCEPT !.min_wheel.slots = map_remove(@, hand)]
    IN  IF is_some(slot)
        THEN cascade_minute_loop(removed, unwrap(slot).task_map)
        ELSE removed

\* cascade_minute_tasks_internal that puts the slot it took out back as it
\* was: every task it moved is also still in the minute slot
cascade_minute_tasks_internal_leaves_copy(self) ==
    LET hand == self.min_wheel.hand
        slot == map_get(self.min_wheel.slots, hand)
        removed == [self EXCEPT !.min_wheel.slots = map_remove(@, hand)]
        moved == IF is_some(slot)
                 THEN cascade_minute_loop(removed, unwrap(slot).task_map)
                 ELSE removed
    IN  IF moved.panicked
        THEN moved
        ELSE [moved EXCEPT !.min_wheel.slots =
                  map_insert(@, hand, IF is_some(slot) THEN unwrap(slot)
                                      ELSE Slot_new)]

\* MulitWheel::cascade_minute_tasks_internal
cascade_minute_tasks_internal(self) ==
    LET hand == self.min_wheel.hand
        slot == map_get(self.min_wheel.slots, hand)
        removed == [self EXCEPT !.min_wheel.slots = map_remove(@, hand)]
        moved == IF is_some(slot)
                 THEN cascade_minute_loop(removed, unwrap(slot).task_map)
                 ELSE removed
    IN  IF moved.panicked
        THEN moved
        ELSE [moved EXCEPT !.min_wheel.slots = map_insert(@, hand, Slot_new)]

\* the loop of cascade_hour_tasks_internal: self and new_slot as they are
\* after the tasks of task_map
RECURSIVE cascade_hour_loop(_, _, _)
cascade_hour_loop(self, new_slot, task_map) ==
    IF DOMAIN task_map = {} \/ self.panicked
    THEN [self |-> self, new_slot |-> new_slot]
    ELSE LET id == CHOOSE i \in DOMAIN task_map : TRUE
             task == task_map[id]
             round == task.cascade_guide.round
             rest == map_remove(task_map, id)
         IN  IF round > 0
             THEN cascade_hour_loop(
                      self,
                      Slot_add_task(new_slot,
                                    [task EXCEPT !.cascade_guide.round = @ - 1]),
                      rest)
             ELSE IF ~is_some(task.cascade_guide.min)
                  THEN [self |-> [self EXCEPT !.panicked = TRUE],
                        new_slot |-> new_slot]
                  ELSE LET slot_num == unwrap(task.cascade_guide.min)
                       IN  IF Wheel_add_task_panics(self.min_wheel, slot_num)
                           THEN [self |-> [self EXCEPT !.panicked = TRUE],
                                 new_slot |-> new_slot]
                           ELSE cascade_hour_loop(
                                    [self EXCEPT !.min_wheel =
                                         Wheel_add_task(@, task, slot_num)],
                                    new_slot,
                                    rest)

\* cascade_hour_tasks_internal that does not look at the round: every task of
\* the slot goes to the minute wheel
cascade_hour_tasks_internal_ignores_round(self) ==
    LET hand == self.hour_wheel.hand
        slot == map_get(self.hour_wheel.slots, hand)
        removed == [self EXCEPT !.hour_wheel.slots = map_remove(@, hand)]
        task_map == IF is_some(slot)
                    THEN [id \in DOMAIN unwrap(slot).task_map |->
                             [unwrap(slot).task_map[id] EXCEPT
                                  !.cascade_guide.round = 0]]
                    ELSE EmptyMap
        looped == cascade_hour_loop(removed, Slot_new, task_map)
    IN  IF looped.self.panicked
        THEN looped.self
        ELSE [looped.self EXCEPT
                  !.hour_wheel.slots = map_insert(@, hand, looped.new_slot)]

\* MulitWheel::cascade_hour_tasks_internal
cascade_hour_tasks_internal(self) ==
    LET hand == self.hour_wheel.hand
        slot == map_get(self.hour_wheel.slots, hand)
        removed == [self EXCEPT !.hour_wheel.slots = map_remove(@, hand)]
        looped == IF is_some(slot)
                  THEN cascade_hour_loop(removed, Slot_new, unwrap(slot).task_map)
                  ELSE [self |-> removed, new_slot |-> Slot_new]
    IN  IF looped.self.panicked
        THEN looped.self
        ELSE [looped.self EXCEPT
                  !.hour_wheel.slots = map_insert(@, hand, looped.new_slot)]

\* tick that leaves out the minute cascade when the minute hand carries
tick_no_minute_cascade_on_carry(self) ==
    LET s == hand_move(self.sec_wheel, 1)
        self1 == [self EXCEPT !.sec_wheel = s.wheel]
    IN  IF ~is_some(s.carry)
        THEN [self |-> self1, ret |-> None]
        ELSE LET m == hand_move(self1.min_wheel, unwrap(s.carry))
                 moved == [self1 EXCEPT !.min_wheel = m.wheel]
             IN  IF ~is_some(m.carry)
                 THEN [self |-> cascade_minute_tasks_internal(moved), ret |-> None]
                 ELSE LET h == hand_move(moved.hour_wheel, unwrap(m.carry))
                          self3 == cascade_hour_tasks_internal(
                                       [moved EXCEPT !.hour_wheel = h.wheel])
                      IN  [self |-> self3, ret |-> h.carry]

\* a tick that, when both hands carry, cascades the hour slot before the
\* minute slot
tick_hour_cascade_first(self) ==
    LET s == hand_move(self.sec_wheel, 1)
        self1 == [self EXCEPT !.sec_wheel = s.wheel]
    IN  IF ~is_some(s.carry)
        THEN [self |-> self1, ret |-> None]
        ELSE LET m == hand_move(self1.min_wheel, unwrap(s.carry))
                 moved == [self1 EXCEPT !.min_wheel = m.wheel]
             IN  IF ~is_some(m.carry)
                 THEN [self |-> cascade_minute_tasks_internal(moved), ret |-> None]
                 ELSE LET h == hand_move(moved.hour_wheel, unwrap(m.carry))
                          self2 == cascade_hour_tasks_internal(
                                       [moved EXCEPT !.hour_wheel = h.wheel])
                      IN  [self |-> cascade_minute_tasks_internal(self2),
                           ret |-> h.carry]

\* MulitWheel::tick: the seconds hand moves by one; on its carry the minute
\* hand moves and the minute slot under it cascades; on the minute hand's
\* carry the hour hand moves and the hour slot under it cascades.
tick(self) ==
    LET s == hand_move(self.sec_wheel, 1)
        self1 == [self EXCEPT !.sec_wheel = s.wheel]
    IN  IF ~is_some(s.carry)
        THEN [self |-> self1, ret |-> None]
        ELSE LET m == hand_move(self1.min_wheel, unwrap(s.carry))
                 self2 == cascade_minute_tasks_internal(
                              [self1 EXCEPT !.min_wheel = m.wheel])
             IN  IF self2.panicked \/ ~is_some(m.carry)
                 THEN [self |-> self2, ret |-> None]
                 ELSE LET h == hand_move(self2.hour_wheel, unwrap(m.carry))
                          self3 == cascade_hour_tasks_internal(
                                       [self2 EXCEPT !.hour_wheel = h.wheel])
                      IN  [self |-> self3, ret |-> h.carry]

\* cal_next_hand_position that takes a minute carry only above 60 seconds
cal_next_hand_position_late_carry(self, next_alarm_sec) ==
    LET total_seconds == self.sec_wheel.hand + next_alarm_sec
        total_minutes == self.min_wheel.hand + (total_seconds \div 60)
        total_hours == self.hour_wheel.hand + (total_minutes \div 60)
    IN  IF total_seconds > 60
        THEN IF total_minutes >= 60
             THEN [sec |-> total_seconds % 60, min |-> Some(total_minutes % 60),
                   hour |-> Some(total_hours % 24), round |-> total_hours \div 24]
             ELSE [sec |-> total_seconds % 60, min |-> Some(total_minutes % 60),
                   hour |-> None, round |-> 0]
        ELSE [sec |-> total_seconds % 60, min |-> None, hour |-> None, round |-> 0]

\* cal_next_hand_position whose minutes leave out the seconds hand
cal_next_hand_position_minutes_of_delay(self, next_alarm_sec) ==
    LET total_seconds == self.sec_wheel.hand + next_alarm_sec
        total_minutes == self.min_wheel.hand + (next_alarm_sec \div 60)
        total_hours == self.hour_wheel.hand + (total_minutes \div 60)
    IN  IF total_seconds >= 60
        THEN IF total_minutes >= 60
             THEN [sec |-> total_seconds % 60, min |-> Some(total_minutes % 60),
                   hour |-> Some(total_hours % 24), round |-> total_hours \div 24]
             ELSE [sec |-> total_seconds % 60, min |-> Some(total_minutes % 60),
                   hour |-> None, round |-> 0]
        ELSE [sec |-> total_seconds % 60, min |-> None, hour |-> None, round |-> 0]

\* MulitWheel::cal_next_hand_position
cal_next_hand_position(self, next_alarm_sec) ==
    LET pos == get_wheel_positions(self)
        current_second == pos[1]
        current_minute == pos[2]
        current_hour == pos[3]
        total_seconds == current_second + next_alarm_sec
        final_sec == total_seconds % 60
        total_minutes == current_minute + (total_seconds \div 60)
        final_min == total_minutes % 60
        has_min_carry == total_seconds >= 60
        has_hour_carry == total_minutes >= 60
        total_hours == current_hour + (total_minutes \div 60)
        final_hour == total_hours % 24
        round == total_hours \div 24
    IN  IF has_min_carry
        THEN IF has_hour_carry
             THEN [sec |-> final_sec, min |-> Some(final_min),
                   hour |-> Some(final_hour), round |-> round]
             ELSE [sec |-> final_sec, min |-> Some(final_min),
                   hour |-> None, round |-> 0]
        ELSE [sec |-> final_sec, min |-> None, hour |-> None, round |-> 0]

\* the loop of cascade_minute_tasks: for each task of task_map, the index
\* entry, if there is one, is set to the seconds slot guide.sec, and the
\* task goes to that slot
RECURSIVE cascade_minute_tasks_loop(_, _)
cascade_minute_tasks_loop(self, task_map) ==
    IF DOMAIN task_map = {} \/ self.panicked
    THEN self
    ELSE LET id == CHOOSE i \in DOMAIN task_map : TRUE
             task == task_map[id]
             slot_num == task.cascade_guide.sec
             entry == map_get(self.task_tracker_map, task.task_id)
             tracked ==
                 IF is_some(entry)
                 THEN [self EXCEPT !.task_tracker_map =
                          map_insert(@, task.task_id,
                                     [unwrap(entry) EXCEPT
                                          !.wheel_type = "Second",
                                          !.slot_num = slot_num,
                                          !.cascade_guide = task.cascade_guide])]
                 ELSE self
         IN  IF Wheel_add_task_panics(tracked.sec_wheel, slot_num)
             THEN [tracked EXCEPT !.panicked = TRUE]
             ELSE cascade_minute_tasks_loop(
                      [tracked EXCEPT !.sec_wheel = Wheel_add_task(@, task, slot_num)],
                      map_remove(task_map, id))

\* MulitWheel::cascade_minute_tasks
cascade_minute_tasks(self) ==
    LET hand == self.min_wheel.hand
        slot == map_get(self.min_wheel.slots, hand)
        removed == [self EXCEPT !.min_wheel.slots = map_remove(@, hand)]
        moved == IF is_some(slot)
                 THEN cascade_minute_tasks_loop(removed, unwrap(slot).task_map)
                 ELSE removed
    IN  IF moved.panicked
        THEN moved
        ELSE [moved EXCEPT !.min_wheel.slots = map_insert(@, hand, Slot_new)]

\* the loop of cascade_hour_tasks.  A task with round > 0 goes to new_slot;
\* its round is lowered, and written to its index entry, only when it has
\* an index entry.  A task with round 0 goes to the minute slot guide.min,
\* and its index entry, if there is one, is set to that slot.
RECURSIVE cascade_hour_tasks_loop(_, _, _)
cascade_hour_tasks_loop(self, new_slot, task_map) ==
    IF DOMAIN task_map = {} \/ self.panicked
    THEN [self |-> self, new_slot |-> new_slot]
    ELSE LET id == CHOOSE i \in DOMAIN task_map : TRUE
             task == task_map[id]
             round == task.cascade_guide.round
             rest == map_remove(task_map, id)
             entry == map_get(self.task_tracker_map, task.task_id)
         IN  IF round > 0
             THEN LET lowered == [task EXCEPT !.cascade_guide.round = @ - 1]
                  IN  IF is_some(entry)
                      THEN cascade_hour_tasks_loop(
                               [self EXCEPT !.task_tracker_map =
                                    map_insert(@, task.task_id,
                                               [unwrap(entry) EXCEPT
                                                    !.cascade_guide =
                                                        lowered.cascade_guide])],
                               Slot_add_task(new_slot, lowered),
                               rest)
                      ELSE cascade_hour_tasks_loop(
                               self, Slot_add_task(new_slot, task), rest)
             ELSE IF ~is_some(task.cascade_guide.min)
                  THEN [self |-> [self EXCEPT !.panicked = TRUE],
                        new_slot |-> new_slot]
                  ELSE LET slot_num == unwrap(task.cascade_guide.min)
                           tracked ==
                               IF is_some(entry)
                               THEN [self EXCEPT !.task_tracker_map =
                                        map_insert(@, task.task_id,
                                            [unwrap(entry) EXCEPT
                                                 !.wheel_type = "Minute",
                                                 !.slot_num = slot_num,
                                                 !.cascade_guide =
                                                     task.cascade_guide])]
                               ELSE self
                       IN  IF Wheel_add_task_panics(tracked.min_wheel, slot_num)
                           THEN [self |-> [tracked EXCEPT !.panicked = TRUE],
                                 new_slot |-> new_slot]
                           ELSE cascade_hour_tasks_loop(
                                    [tracked EXCEPT !.min_wheel =
                                         Wheel_add_task(@, task, slot_num)],
                                    new_slot,
                                    rest)

\* MulitWheel::cascade_hour_tasks
cascade_hour_tasks(self) ==
    LET hand == self.hour_wheel.hand
        slot == map_get(self.hour_wheel.slots, hand)
        removed == [self EXCEPT !.hour_wheel.slots = map_remove(@, hand)]
        looped == IF is_some(slot)
                  THEN cascade_hour_tasks_loop(removed, Slot_new,
                                               unwrap(slot).task_map)
                  ELSE [self |-> removed, new_slot |-> Slot_new]
    IN  IF looped.self.panicked
        THEN looped.self
        ELSE [looped.self EXCEPT
                  !.hour_wheel.slots = map_insert(@, hand, looped.new_slot)]

\* MulitWheel::get_task_tracking_info
get_task_tracking_info(self, task_id) == map_get(self.task_tracker_map, task_id)

\* TaskTrackingInfo
TaskTrackingInfo(task_id, cascade_guide, wheel_type, slot_num) ==
    [task_id |-> task_id, cascade_guide |-> cascade_guide,
     wheel_type |-> wheel_type, slot_num |-> slot_num]

\* MulitWheel::add_task from cal_next_hand_position on: task1 is the task
\* after its timestamp was taken, next_alarm_sec the delay
add_task_place(self, task1, next_alarm_sec) ==
    LET next_guide == cal_next_hand_position(self, next_alarm_sec)
        task == [task1 EXCEPT !.cascade_guide = next_guide]
        placed ==
            IF is_some(next_guide.hour)
            THEN LET hour == unwrap(next_guide.hour)
                 IN  [panics |-> Wheel_add_task_panics(self.hour_wheel, hour),
                      self |-> [self EXCEPT !.hour_wheel =
                                    Wheel_add_task(@, task, hour)],
                      tracking_info |->
                          TaskTrackingInfo(task.task_id, next_guide, "Hour", hour)]
            ELSE IF is_some(next_guide.min)
            THEN LET min == unwrap(next_guide.min)
                 IN  [panics |-> Wheel_add_task_panics(self.min_wheel, min),
                      self |-> [self EXCEPT !.min_wheel =
                                    Wheel_add_task(@, task, min)],
                      tracking_info |->
                          TaskTrackingInfo(task.task_id, next_guide, "Minute", min)]
            ELSE [panics |-> Wheel_add_task_panics(self.sec_wheel, next_guide.sec),
                  self |-> [self EXCEPT !.sec_wheel =
                                Wheel_add_task(@, task, next_guide.sec)],
                  tracking_info |->
                      TaskTrackingInfo(task.task_id, next_guide, "Second",
                                       next_guide.sec)]
    IN  IF placed.panics
        THEN [self |-> [self EXCEPT !.panicked = TRUE], ret |-> "panic"]
        ELSE [self |-> [placed.self EXCEPT !.task_tracker_map =
                            map_insert(@, task.task_id, placed.tracking_info)],
              ret |-> "Ok"]

\* MulitWheel::add_task with timestamp() = now, in a build that checks
\* integer overflow: the u64 subtraction next_exec_timestamp - timestamp()
\* panics when the timestamp is in the past.
add_task(self, task0, now) ==
    LET n == Task_next_alarm_timestamp(task0)
    IN  IF ~is_some(n.ret)
        THEN [self |-> self, ret |-> "Ok"]
        ELSE IF unwrap(n.ret) < now
        THEN [self |-> [self EXCEPT !.panicked = TRUE], ret |-> "panic"]
        ELSE add_task_place(self, n.task, unwrap(n.ret) - now)

\* MulitWheel::add_task with timestamp() = now, in a build whose integers
\* wrap: for a timestamp d seconds in the past next_alarm_sec is 2^64 - d,
\* written -d here, and current_second + next_alarm_sec in
\* cal_next_hand_position wraps once more to current_second - d.  That holds
\* for d up to current_second, all that AddTaskLate below draws; for a larger
\* d the sum stays near 2^64.
add_task_wrapping(self, task0, now) ==
    LET n == Task_next_alarm_timestamp(task0)
    IN  IF ~is_some(n.ret)
        THEN [self |-> self, ret |-> "Ok"]
        ELSE add_task_place(self, n.task, unwrap(n.ret) - now)

\* MulitWheel::remove_task: the index entry is taken out first, then the
\* task is looked for in the slot the entry names.
remove_task(self, task_id) ==
    LET entry == map_get(self.task_tracker_map, task_id)
    IN  IF is_some(entry)
        THEN LET tracking_info == unwrap(entry)
                 self1 == [self EXCEPT !.task_tracker_map = map_remove(@, task_id)]
             IN  IF tracking_info.wheel_type = "Second"
                 THEN LET r == Wheel_remove_task(self1.sec_wheel, task_id,
                                                 tracking_info.slot_num)
                      IN  [self |-> [self1 EXCEPT !.sec_wheel = r.wheel], ret |-> r.ret]
                 ELSE IF tracking_info.wheel_type = "Minute"
                 THEN LET r == Wheel_remove_task(self1.min_wheel, task_id,
                                                 tracking_info.slot_num)
                      IN  [self |-> [self1 EXCEPT !.min_wheel = r.wheel], ret |-> r.ret]
                 ELSE LET r == Wheel_remove_task(self1.hour_wheel, task_id,
                                                 tracking_info.slot_num)
                      IN  [self |-> [self1 EXCEPT !.hour_wheel = r.wheel], ret |-> r.ret]
        ELSE [self |-> self, ret |-> None]

\* ------------------------------------------------------------------- state
\* The fields of the MulitWheel, whether a call has panicked, and three
\* records of the run: the last call with its arguments and result, the
\* numbers of ticks and of add_task calls so far, and for each task id the
\* delay of its latest add_task with the tick count at that call.
\* `freq` is a frequency handed to TaskBuilder, the FrequencyState built
\* from it and the calls made on that state with their results.
\* `tick_thread` is the position of the thread that runs tick between the
\* atomic operations of hand_move, with the new_hand and the carry of the
\* hand_move it is in or has last left; `observed` is the last hand another
\* thread has loaded.  `threads` holds, for each thread that calls add_task
\* or remove_task one step at a time, the call it is in, its position and
\* its locals; `start` is the MulitWheel as it was when the first of these
\* calls began.
VARIABLES sec_wheel, min_wheel, hour_wheel, task_tracker_map, panicked,
          last_call, ticks, adds, added, freq, tick_thread, observed, threads,
          start

vars == <<sec_wheel, min_wheel, hour_wheel, task_tracker_map, panicked,
          last_call, ticks, adds, added, freq, tick_thread, observed, threads, start>>

self_now ==
    [sec_wheel |-> sec_wheel, min_wheel |-> min_wheel, hour_wheel |-> hour_wheel,
     task_tracker_map |-> task_tracker_map, panicked |-> panicked]

becomes(self) ==
    /\ sec_wheel' = self.sec_wheel
    /\ min_wheel' = self.min_wheel
    /\ hour_wheel' = self.hour_wheel
    /\ task_tracker_map' = self.task_tracker_map
    /\ panicked' = self.panicked

Call(name, task_id, next_alarm_sec, ret) ==
    [name |-> name, task_id |-> task_id, next_alarm_sec |-> next_alarm_sec,
     hands |-> get_wheel_positions(self_now), ret |-> ret]

\* MulitWheel::new after `hands[1] + 60 hands[2] + 3600 hands[3]` ticks: no
\* task, the hands where those ticks leave them (set_wheel_positions in
\* the tests)
set_wheel_positions(hands) ==
    [MulitWheel_new EXCEPT !.sec_wheel.hand = hands[1] % 60,
                           !.min_wheel.hand = hands[2] % 60,
                           !.hour_wheel.hand = hands[3] % 24]

\* a thread that is in no call
ThreadIdle ==
    [pc |-> "idle", op |-> "", task_id |-> 0, seconds |-> 0, task |-> None,
     next_alarm_sec |-> 0, t0 |-> 0, pos |-> <<>>, info |-> None,
     resident |-> FALSE, overlap |-> FALSE, ret |-> ""]

InitAt(hands) ==
    /\ sec_wheel = set_wheel_positions(hands).sec_wheel
    /\ min_wheel = set_wheel_positions(hands).min_wheel
    /\ hour_wheel = set_wheel_positions(hands).hour_wheel
    /\ task_tracker_map = EmptyMap
    /\ panicked = FALSE
    /\ last_call = [name |-> "new", task_id |-> 0, next_alarm_sec |-> 0,
                    hands |-> hands, ret |-> None]
    /\ ticks = 0
    /\ adds = 0
    /\ added = [id \in TaskIds |-> None]
    /\ freq = [from |-> None, ret |-> "", frequency |-> None, calls |-> <<>>]
    /\ tick_thread = [pc |-> "idle", new_hand |-> 0, carry |-> 0, hand |-> 0,
                      task_map |-> EmptyMap, new_slot |-> Slot_new]
    /\ observed = None
    /\ threads = [t \in TaskIds |-> ThreadIdle]
    /\ start = None

\* ----------------------------------------------------------------- actions
\* add_task of a task built at Epoch with Once(seconds), called at `now`,
\* not later than the task's first timestamp
AddTask(task_id, seconds, now) ==
    LET task == spwan_async(task_id, Once(seconds), Epoch)
        r == add_task(self_now, task, now)
    IN  /\ ~panicked
        /\ ~FrequencyState_from_panics(Once(seconds))
        /\ now <= Epoch + seconds
        /\ becomes(r.self)
        /\ last_call' = Call("add_task", task_id, Epoch + seconds - now, r.ret)
        /\ added' = [added EXCEPT ![task_id] =
                         Some([next_alarm_sec |-> Epoch + seconds - now, at |-> ticks])]
        /\ adds' = adds + 1
        /\ UNCHANGED <<ticks, freq, tick_thread, observed, threads, start>>

RemoveTask(task_id) ==
    LET r == remove_task(self_now, task_id)
    IN  /\ ~panicked
        /\ becomes(r.self)
        /\ last_call' = Call("remove_task", task_id, 0, r.ret)
        /\ added' = [added EXCEPT ![task_id] = None]
        /\ UNCHANGED <<ticks, adds, freq, tick_thread, observed, threads, start>>

GetTaskTrackingInfo(task_id) ==
    /\ ~panicked
    /\ last_call' = Call("get_task_tracking_info", task_id, 0,
                         get_task_tracking_info(self_now, task_id))
    /\ UNCHANGED <<sec_wheel, min_wheel, hour_wheel, task_tracker_map, panicked,
                   ticks, adds, added, freq, tick_thread, observed, threads, start>>

Tick ==
    LET r == tick(self_now)
    IN  /\ ~panicked
        /\ becomes(r.self)
        /\ last_call' = Call("tick", 0, 0, r.ret)
        /\ ticks' = ticks + 1
        /\ UNCHANGED <<adds, added, freq, tick_thread, observed, threads, start>>

\* ---------------------------------------------------- Spec: all operations
\* hands from which the next ticks carry into the minute and the hour wheel
StartHands == {<<0, 0, 0>>, <<58, 20, 10>>, <<58, 59, 10>>, <<58, 59, 23>>}

\* Once(seconds) of the tasks added
Periods == {2, 62, 3602}

AddTaskOp ==
    /\ adds < MaxAdds
    /\ \E task_id \in TaskIds, seconds \in Periods : AddTask(task_id, seconds, Epoch)

RemoveTaskOp == \E task_id \in TaskIds : RemoveTask(task_id)

GetTaskTrackingInfoOp == \E task_id \in TaskIds : GetTaskTrackingInfo(task_id)

TickOp == ticks < MaxTicks /\ Tick

Init == \E hands \in StartHands : InitAt(hands)

Next == AddTaskOp \/ RemoveTaskOp \/ GetTaskTrackingInfoOp \/ TickOp

Spec == Init /\ [][Next]_vars

\* ------------------------------------------ SpecClock: ticks and no task
ClockTick == ticks < MaxClockTicks /\ Tick

InitClock == InitAt(get_wheel_positions(MulitWheel_new))

NextClock == ClockTick

SpecClock == InitClock /\ [][NextClock]_vars

\* --------------------------- SpecFire: one add_task, then the task is left
\* alone while tick is called
FireHands == {<<0, 0, 0>>, <<58, 20, 10>>, <<50, 58, 10>>, <<50, 59, 10>>,
              <<55, 59, 23>>}

FirePeriods == {1, 5, 10, 20, 65, 130}

FireAdd ==
    /\ adds = 0
    /\ \E seconds \in FirePeriods : AddTask(1, seconds, Epoch)

FireTick == adds = 1 /\ ticks < MaxFireTicks /\ Tick

InitFire == \E hands \in FireHands : InitAt(hands)

NextFire == FireAdd \/ FireTick

SpecFire == InitFire /\ [][NextFire]_vars

\* ------------------------ SpecPlace: one add_task from every hand position
PlaceHands == (0..59) \X (0..59) \X (0..23)

PlacePeriods == {1, 2, 60, 3600, 86400, 100000}

PlaceAdd ==
    /\ adds = 0
    /\ \E seconds \in PlacePeriods, now \in Epoch..(Epoch + MaxAge) :
           AddTask(1, seconds, now)

InitPlace == \E hands \in PlaceHands : InitAt(hands)

NextPlace == PlaceAdd

SpecPlace == InitPlace /\ [][NextPlace]_vars

\* ----------------- SpecDay: one add_task just before the hour hand moves,
\* then tick is called for a day
DayHands == {<<58, 59, 10>>, <<58, 59, 23>>}

DayPeriods == {2, 62, 3602}

DayAdd ==
    /\ adds = 0
    /\ \E seconds \in DayPeriods : AddTask(1, seconds, Epoch)

DayTick == adds = 1 /\ ticks < MaxDayTicks /\ Tick

InitDay == \E hands \in DayHands : InitAt(hands)

NextDay == DayAdd \/ DayTick

SpecDay == InitDay /\ [][NextDay]_vars

\* ------- SpecFreq: a frequency is built into a task, and the task's
\* FrequencyState is peeked, advanced and handed to add_task while tick is
\* called once a second from Epoch on
FreqSpecs ==
    {Once(p) : p \in 0..MaxPeriod}
    \cup {Repeated(p) : p \in 0..MaxPeriod}
    \cup {CountDown(n, p) : n \in 0..MaxCount, p \in 0..MaxPeriod}

\* TaskBuilder::new(1) with the frequency, then spwan_async at Epoch
FreqBuild(frequency) ==
    /\ freq.ret = ""
    /\ freq' = [from |-> Some(frequency),
                ret |-> spwan_async_ret(frequency),
                frequency |->
                    IF spwan_async_ret(frequency) = "Ok"
                    THEN Some(spwan_async(1, frequency, Epoch).frequency)
                    ELSE None,
                calls |-> <<>>]
    /\ UNCHANGED <<sec_wheel, min_wheel, hour_wheel, task_tracker_map, panicked,
                   last_call, ticks, adds, added, tick_thread, observed, threads, start>>

FreqPeek ==
    /\ freq.ret = "Ok"
    /\ Len(freq.calls) < MaxCalls
    /\ LET p == peek_alarm_timestamp(unwrap(freq.frequency))
       IN  freq' = [freq EXCEPT
                       !.frequency = Some(p.frequency),
                       !.calls = Append(@, [op |-> "peek", ret |-> p.ret,
                                            unchanged |-> TRUE])]
    /\ UNCHANGED <<sec_wheel, min_wheel, hour_wheel, task_tracker_map, panicked,
                   last_call, ticks, adds, added, tick_thread, observed, threads, start>>

FreqNext ==
    /\ freq.ret = "Ok"
    /\ Len(freq.calls) < MaxCalls
    /\ LET n == next_alarm_timestamp(unwrap(freq.frequency))
       IN  freq' = [freq EXCEPT
                       !.frequency = Some(n.frequency),
                       !.calls = Append(@, [op |-> "next", ret |-> n.ret,
                                            unchanged |-> TRUE])]
    /\ UNCHANGED <<sec_wheel, min_wheel, hour_wheel, task_tracker_map, panicked,
                   last_call, ticks, adds, added, tick_thread, observed, threads, start>>

\* add_task of the task at time Epoch + ticks, not later than the timestamp
\* it takes from the task; `unchanged` records whether the call left the
\* wheels and the index as they were
FreqAddTask ==
    LET task == [task_id |-> 1, cascade_guide |-> WheelCascadeGuide_default,
                 frequency |-> unwrap(freq.frequency)]
        now == Epoch + ticks
        n == Task_next_alarm_timestamp(task)
        r == add_task(self_now, task, now)
    IN  /\ freq.ret = "Ok"
        /\ Len(freq.calls) < MaxCalls
        /\ ~panicked
        /\ is_some(n.ret) => unwrap(n.ret) >= now
        /\ becomes(r.self)
        /\ freq' = [freq EXCEPT
                        !.frequency = Some(n.task.frequency),
                        !.calls = Append(@, [op |-> "add_task", ret |-> n.ret,
                                             unchanged |-> r.self = self_now])]
        /\ last_call' = Call("add_task", 1,
                             IF is_some(n.ret) THEN unwrap(n.ret) - now ELSE 0, r.ret)
        /\ added' = [added EXCEPT ![1] =
                         IF is_some(n.ret)
                         THEN Some([next_alarm_sec |-> unwrap(n.ret) - now,
                                    at |-> ticks])
                         ELSE @]
        /\ adds' = adds + 1
        /\ UNCHANGED <<ticks, tick_thread, observed, threads, start>>

FreqTick == freq.ret = "Ok" /\ ticks < MaxFreqTicks /\ Tick

InitFreq == InitAt(get_wheel_positions(MulitWheel_new))

NextFreq ==
    \/ \E frequency \in FreqSpecs : FreqBuild(frequency)
    \/ FreqPeek
    \/ FreqNext
    \/ FreqAddTask
    \/ FreqTick

SpecFreq == InitFreq /\ [][NextFreq]_vars

\* ------ SpecLate: one add_task, called at or after the task's timestamp
LateHands == (0..59) \X {0, 59} \X {0, 23}

\* the two ways the build treats integer overflow
Builds == {"overflow-checked", "wrapping"}

\* add_task of a task built at Epoch with Once(seconds), called `late`
\* seconds after the task's first timestamp.  In the wrapping build `late`
\* is at most the seconds hand (see add_task_wrapping).
AddTaskLate(task_id, seconds, late, build) ==
    LET task == spwan_async(task_id, Once(seconds), Epoch)
        now == Epoch + seconds + late
        r == IF build = "wrapping"
             THEN add_task_wrapping(self_now, task, now)
             ELSE add_task(self_now, task, now)
    IN  /\ ~panicked
        /\ ~FrequencyState_from_panics(Once(seconds))
        /\ build = "wrapping" => late <= sec_wheel.hand
        /\ becomes(r.self)
        /\ last_call' = Call("add_task", task_id, 0 - late, r.ret)
        /\ added' = [added EXCEPT ![task_id] =
                         Some([next_alarm_sec |-> 0 - late, at |-> ticks])]
        /\ adds' = adds + 1
        /\ UNCHANGED <<ticks, freq, tick_thread, observed, threads, start>>

LateAdd ==
    /\ adds = 0
    /\ \E late \in 0..MaxLate, build \in Builds : AddTaskLate(1, 1, late, build)

InitLate == \E hands \in LateHands : InitAt(hands)

NextLate == LateAdd

SpecLate == InitLate /\ [][NextLate]_vars

\* ------------------ add_task and remove_task, one shared access at a time
\* the wheel of a wheel type
WheelOf(wheel_type) ==
    IF wheel_type = "Second" THEN sec_wheel
    ELSE IF wheel_type = "Minute" THEN min_wheel
    ELSE hour_wheel

\* the three wheels with the wheel of one wheel type replaced
WheelsWith(wheel_type, wheel) ==
    /\ sec_wheel' = IF wheel_type = "Second" THEN wheel ELSE sec_wheel
    /\ min_wheel' = IF wheel_type = "Minute" THEN wheel ELSE min_wheel
    /\ hour_wheel' = IF wheel_type = "Hour" THEN wheel ELSE hour_wheel

\* a call that thread t begins now starts while another thread is inside a
\* call of its own
Overlaps(t) ==
    \E u \in TaskIds \ {t} : threads[u].pc \notin {"idle", "done"}

\* thread t enters add_task with a task built at Epoch with Once(seconds):
\* the task's timestamp is taken and timestamp() = Epoch subtracted
ThreadAddCall(t, task_id, seconds) ==
    LET n == Task_next_alarm_timestamp(spwan_async(task_id, Once(seconds), Epoch))
    IN  /\ threads[t].pc = "idle"
        /\ ~panicked
        /\ ~FrequencyState_from_panics(Once(seconds))
        /\ threads' = [threads EXCEPT ![t] =
                          [ThreadIdle EXCEPT !.pc = "load",
                                             !.op = "add_task",
                                             !.task_id = task_id,
                                             !.seconds = seconds,
                                             !.task = Some(n.task),
                                             !.next_alarm_sec = unwrap(n.ret) - Epoch,
                                             !.t0 = ticks,
                                             !.overlap = Overlaps(t)]]
        /\ start' = IF is_some(start) THEN start ELSE Some(self_now)
        /\ UNCHANGED <<sec_wheel, min_wheel, hour_wheel, task_tracker_map,
                       panicked, last_call, ticks, adds, added, freq, tick_thread,
                       observed>>

\* one of the three loads of get_wheel_positions in cal_next_hand_position,
\* seconds hand first; after the third the guide is computed from the three
\* values loaded and written into the task
ThreadAddLoad(t) ==
    LET th == threads[t]
        wheel_type == IF Len(th.pos) = 0 THEN "Second"
                      ELSE IF Len(th.pos) = 1 THEN "Minute"
                      ELSE "Hour"
        pos == Append(th.pos, hand_position(WheelOf(wheel_type)))
        loaded == [self_now EXCEPT !.sec_wheel.hand = pos[1],
                                   !.min_wheel.hand = pos[2],
                                   !.hour_wheel.hand = pos[3]]
    IN  /\ th.pc = "load"
        /\ threads' = [threads EXCEPT ![t] =
                          IF Len(pos) < 3
                          THEN [th EXCEPT !.pos = pos]
                          ELSE [th EXCEPT
                                    !.pos = pos,
                                    !.pc = "insert_slot",
                                    !.task = Some([unwrap(th.task) EXCEPT
                                        !.cascade_guide = cal_next_hand_position(
                                            loaded, th.next_alarm_sec)])]]
        /\ UNCHANGED <<sec_wheel, min_wheel, hour_wheel, task_tracker_map,
                       panicked, last_call, ticks, adds, added, freq, tick_thread,
                       observed, start>>

\* Wheel::add_task of the wheel the guide names: slots.get_mut(&slot_num)
\* .unwrap().add_task(task)
ThreadAddInsertSlot(t) ==
    LET th == threads[t]
        task == unwrap(th.task)
        next_guide == task.cascade_guide
        wheel_type == IF is_some(next_guide.hour) THEN "Hour"
                      ELSE IF is_some(next_guide.min) THEN "Minute"
                      ELSE "Second"
        slot_num == IF is_some(next_guide.hour) THEN unwrap(next_guide.hour)
                    ELSE IF is_some(next_guide.min) THEN unwrap(next_guide.min)
                    ELSE next_guide.sec
    IN  /\ th.pc = "insert_slot"
        /\ IF Wheel_add_task_panics(WheelOf(wheel_type), slot_num)
           THEN /\ panicked' = TRUE
                /\ threads' = [threads EXCEPT ![t] =
                                  [th EXCEPT !.pc = "done", !.ret = "panic"]]
                /\ UNCHANGED <<sec_wheel, min_wheel, hour_wheel>>
           ELSE /\ WheelsWith(wheel_type,
                              Wheel_add_task(WheelOf(wheel_type), task, slot_num))
                /\ threads' = [threads EXCEPT ![t] =
                                  [th EXCEPT
                                       !.pc = "insert_index",
                                       !.info = Some(TaskTrackingInfo(
                                           task.task_id, next_guide, wheel_type,
                                           slot_num))]]
                /\ UNCHANGED panicked
        /\ UNCHANGED <<task_tracker_map, last_call, ticks, adds, added, freq,
                       tick_thread, observed, start>>

\* an index insert that writes back a copy of the map taken when the first
\* call began, losing what other threads put in since
ThreadAddInsertIndex_stale_map(t) ==
    LET th == threads[t]
    IN  /\ th.pc = "insert_index"
        /\ task_tracker_map' = map_insert(unwrap(start).task_tracker_map,
                                          th.task_id, unwrap(th.info))
        /\ threads' = [threads EXCEPT ![t] = [th EXCEPT !.pc = "done", !.ret = "Ok"]]
        /\ UNCHANGED <<sec_wheel, min_wheel, hour_wheel, panicked, last_call,
                       ticks, adds, added, freq, tick_thread, observed, start>>

\* task_tracker_map.insert(task.task_id, tracking_info), and add_task
\* returns Ok(())
ThreadAddInsertIndex(t) ==
    LET th == threads[t]
    IN  /\ th.pc = "insert_index"
        /\ task_tracker_map' = map_insert(task_tracker_map, th.task_id,
                                          unwrap(th.info))
        /\ threads' = [threads EXCEPT ![t] = [th EXCEPT !.pc = "done", !.ret = "Ok"]]
        /\ UNCHANGED <<sec_wheel, min_wheel, hour_wheel, panicked, last_call,
                       ticks, adds, added, freq, tick_thread, observed, start>>

\* thread t enters remove_task: task_tracker_map.remove(&task_id).
\* `resident` records whether the task is in the slot the entry names.
ThreadRemoveCall(t, task_id) ==
    LET entry == map_get(task_tracker_map, task_id)
        slot == map_get(WheelOf(unwrap(entry).wheel_type).slots,
                        unwrap(entry).slot_num)
    IN  /\ threads[t].pc = "idle"
        /\ ~panicked
        /\ task_tracker_map' = map_remove(task_tracker_map, task_id)
        /\ threads' = [threads EXCEPT ![t] =
                          [ThreadIdle EXCEPT
                               !.pc = IF is_some(entry) THEN "remove_slot" ELSE "done",
                               !.op = "remove_task",
                               !.task_id = task_id,
                               !.info = entry,
                               !.t0 = ticks,
                               !.overlap = Overlaps(t),
                               !.resident = /\ is_some(entry)
                                            /\ is_some(slot)
                                            /\ task_id \in DOMAIN unwrap(slot).task_map,
                               !.ret = IF is_some(entry) THEN "" ELSE "None"]]
        /\ start' = IF is_some(start) THEN start ELSE Some(self_now)
        /\ UNCHANGED <<sec_wheel, min_wheel, hour_wheel, panicked, last_call,
                       ticks, adds, added, freq, tick_thread, observed>>

\* Wheel::remove_task of the wheel the entry names, and remove_task returns
\* what it returned
ThreadRemoveFromSlot(t) ==
    LET th == threads[t]
        info == unwrap(th.info)
        r == Wheel_remove_task(WheelOf(info.wheel_type), th.task_id, info.slot_num)
    IN  /\ th.pc = "remove_slot"
        /\ WheelsWith(info.wheel_type, r.wheel)
        /\ threads' = [threads EXCEPT ![t] =
                          [th EXCEPT !.pc = "done",
                                     !.ret = IF is_some(r.ret) THEN "Some" ELSE "None"]]
        /\ UNCHANGED <<task_tracker_map, panicked, last_call, ticks, adds, added,
                       freq, tick_thread, observed, start>>

\* ---- SpecThreads: one thread runs tick, one atomic operation of hand_move
\* or one access to a slot map at a time, while another thread loads the
\* hands, thread 1 calls add_task for task 1 and thread 2, after that call,
\* remove_task for task 1.  A call overlaps one tick: while a call is under
\* way no tick begins after the first one has ended.
ThreadHands == {<<57, 3, 3>>, <<59, 20, 10>>, <<59, 59, 10>>, <<58, 59, 23>>}

ThreadPeriods == {1, 2}

\* tick, up to the fetch_add of the seconds wheel's hand_move(1)
TickSecFetchAdd ==
    LET f == hand_fetch_add(sec_wheel, 1)
        new_hand == f.pre_hand + 1
        carry == new_hand \div sec_wheel.num_slots
    IN  /\ tick_thread.pc = "idle"
        /\ ticks < MaxThreadTicks
        /\ ~panicked
        /\ \A t \in TaskIds :
               threads[t].pc \notin {"idle", "done"} => ticks = threads[t].t0
        /\ sec_wheel' = f.wheel
        /\ tick_thread' = [tick_thread EXCEPT
                               !.pc = IF carry > 0 THEN "sec_store" ELSE "idle",
                               !.new_hand = new_hand,
                               !.carry = carry]
        /\ ticks' = IF carry > 0 THEN ticks ELSE ticks + 1
        /\ last_call' = IF carry > 0 THEN last_call ELSE Call("tick", 0, 0, None)
        /\ UNCHANGED <<min_wheel, hour_wheel, task_tracker_map, panicked, adds,
                       added, freq, observed, threads, start>>

\* the store of the seconds wheel's hand_move
TickSecStore ==
    /\ tick_thread.pc = "sec_store"
    /\ sec_wheel' = hand_store(sec_wheel, tick_thread.new_hand)
    /\ tick_thread' = [tick_thread EXCEPT !.pc = "min_fetch_add"]
    /\ UNCHANGED <<min_wheel, hour_wheel, task_tracker_map, panicked, last_call,
                   ticks, adds, added, freq, observed, threads, start>>

\* the fetch_add of the minute wheel's hand_move(carry)
TickMinFetchAdd ==
    LET f == hand_fetch_add(min_wheel, tick_thread.carry)
        new_hand == f.pre_hand + tick_thread.carry
        carry == new_hand \div min_wheel.num_slots
    IN  /\ tick_thread.pc = "min_fetch_add"
        /\ min_wheel' = f.wheel
        /\ tick_thread' = [tick_thread EXCEPT
                               !.pc = IF carry > 0 THEN "min_store" ELSE "min_remove",
                               !.new_hand = new_hand,
                               !.carry = carry]
        /\ UNCHANGED <<sec_wheel, hour_wheel, task_tracker_map, panicked,
                       last_call, ticks, adds, added, freq, observed, threads, start>>

\* the store of the minute wheel's hand_move
TickMinStore ==
    /\ tick_thread.pc = "min_store"
    /\ min_wheel' = hand_store(min_wheel, tick_thread.new_hand)
    /\ tick_thread' = [tick_thread EXCEPT !.pc = "min_remove"]
    /\ UNCHANGED <<sec_wheel, hour_wheel, task_tracker_map, panicked, last_call,
                   ticks, adds, added, freq, observed, threads, start>>

\* cascade_minute_tasks_internal: the hand is loaded and
\* min_wheel.slots.remove(&hand) takes the slot out
TickMinRemove ==
    LET hand == hand_position(min_wheel)
        slot == map_get(min_wheel.slots, hand)
    IN  /\ tick_thread.pc = "min_remove"
        /\ min_wheel' = [min_wheel EXCEPT !.slots = map_remove(@, hand)]
        /\ tick_thread' = [tick_thread EXCEPT
                               !.pc = "min_move",
                               !.hand = hand,
                               !.task_map = IF is_some(slot)
                                            THEN unwrap(slot).task_map
                                            ELSE EmptyMap]
        /\ UNCHANGED <<sec_wheel, hour_wheel, task_tracker_map, panicked,
                       last_call, ticks, adds, added, freq, observed, threads, start>>

\* one round of the loop of cascade_minute_tasks_internal:
\* sec_wheel.add_task(task, task.cascade_guide.sec) for one task of the
\* slot taken out, in the order into_values gives
TickMinMove ==
    /\ tick_thread.pc = "min_move"
    /\ \E id \in DOMAIN tick_thread.task_map :
           LET task == tick_thread.task_map[id]
               slot_num == task.cascade_guide.sec
           IN  IF Wheel_add_task_panics(sec_wheel, slot_num)
               THEN /\ panicked' = TRUE
                    /\ tick_thread' = [tick_thread EXCEPT !.pc = "idle"]
                    /\ UNCHANGED sec_wheel
               ELSE /\ sec_wheel' = Wheel_add_task(sec_wheel, task, slot_num)
                    /\ tick_thread' = [tick_thread EXCEPT
                                           !.task_map = map_remove(@, id)]
                    /\ UNCHANGED panicked
    /\ UNCHANGED <<min_wheel, hour_wheel, task_tracker_map, last_call, ticks,
                   adds, added, freq, observed, threads, start>>

\* the end of cascade_minute_tasks_internal: min_wheel.slots.insert(hand,
\* Slot::new()); tick returns after it unless the minute hand carried
TickMinInsert ==
    LET returns == tick_thread.carry = 0
    IN  /\ tick_thread.pc = "min_move"
        /\ DOMAIN tick_thread.task_map = {}
        /\ min_wheel' = [min_wheel EXCEPT
                             !.slots = map_insert(@, tick_thread.hand, Slot_new)]
        /\ tick_thread' = [tick_thread EXCEPT
                               !.pc = IF returns THEN "idle" ELSE "hour_fetch_add"]
        /\ ticks' = IF returns THEN ticks + 1 ELSE ticks
        /\ last_call' = IF returns THEN Call("tick", 0, 0, None) ELSE last_call
        /\ UNCHANGED <<sec_wheel, hour_wheel, task_tracker_map, panicked, adds,
                       added, freq, observed, threads, start>>

\* the fetch_add of the hour wheel's hand_move(carry)
TickHourFetchAdd ==
    LET f == hand_fetch_add(hour_wheel, tick_thread.carry)
        new_hand == f.pre_hand + tick_thread.carry
        carry == new_hand \div hour_wheel.num_slots
    IN  /\ tick_thread.pc = "hour_fetch_add"
        /\ hour_wheel' = f.wheel
        /\ tick_thread' = [tick_thread EXCEPT
                               !.pc = IF carry > 0 THEN "hour_store" ELSE "hour_remove",
                               !.new_hand = new_hand,
                               !.carry = carry]
        /\ UNCHANGED <<sec_wheel, min_wheel, task_tracker_map, panicked,
                       last_call, ticks, adds, added, freq, observed, threads, start>>

\* the store of the hour wheel's hand_move
TickHourStore ==
    /\ tick_thread.pc = "hour_store"
    /\ hour_wheel' = hand_store(hour_wheel, tick_thread.new_hand)
    /\ tick_thread' = [tick_thread EXCEPT !.pc = "hour_remove"]
    /\ UNCHANGED <<sec_wheel, min_wheel, task_tracker_map, panicked, last_call,
                   ticks, adds, added, freq, observed, threads, start>>

\* cascade_hour_tasks_internal: the hand is loaded,
\* hour_wheel.slots.remove(&hand) takes the slot out, new_slot is empty
TickHourRemove ==
    LET hand == hand_position(hour_wheel)
        slot == map_get(hour_wheel.slots, hand)
    IN  /\ tick_thread.pc = "hour_remove"
        /\ hour_wheel' = [hour_wheel EXCEPT !.slots = map_remove(@, hand)]
        /\ tick_thread' = [tick_thread EXCEPT
                               !.pc = "hour_move",
                               !.hand = hand,
                               !.new_slot = Slot_new,
                               !.task_map = IF is_some(slot)
                                            THEN unwrap(slot).task_map
                                            ELSE EmptyMap]
        /\ UNCHANGED <<sec_wheel, min_wheel, task_tracker_map, panicked,
                       last_call, ticks, adds, added, freq, observed, threads, start>>

\* one round of the loop of cascade_hour_tasks_internal: a task with
\* round > 0 goes to new_slot with one round less, another one to the
\* minute slot guide.min.unwrap()
TickHourMove ==
    /\ tick_thread.pc = "hour_move"
    /\ \E id \in DOMAIN tick_thread.task_map :
           LET task == tick_thread.task_map[id]
               guide == task.cascade_guide
           IN  IF guide.round > 0
               THEN /\ tick_thread' = [tick_thread EXCEPT
                                           !.task_map = map_remove(@, id),
                                           !.new_slot = Slot_add_task(@,
                                               [task EXCEPT
                                                    !.cascade_guide.round = @ - 1])]
                    /\ UNCHANGED <<min_wheel, panicked>>
               ELSE IF \/ ~is_some(guide.min)
                       \/ Wheel_add_task_panics(min_wheel, unwrap(guide.min))
               THEN /\ panicked' = TRUE
                    /\ tick_thread' = [tick_thread EXCEPT !.pc = "idle"]
                    /\ UNCHANGED min_wheel
               ELSE /\ min_wheel' = Wheel_add_task(min_wheel, task, unwrap(guide.min))
                    /\ tick_thread' = [tick_thread EXCEPT
                                           !.task_map = map_remove(@, id)]
                    /\ UNCHANGED panicked
    /\ UNCHANGED <<sec_wheel, hour_wheel, task_tracker_map, last_call, ticks,
                   adds, added, freq, observed, threads, start>>

\* the end of cascade_hour_tasks_internal: hour_wheel.slots.insert(hand,
\* new_slot), and tick returns the hour hand's carry
TickHourInsert ==
    /\ tick_thread.pc = "hour_move"
    /\ DOMAIN tick_thread.task_map = {}
    /\ hour_wheel' = [hour_wheel EXCEPT
                          !.slots = map_insert(@, tick_thread.hand,
                                               tick_thread.new_slot)]
    /\ tick_thread' = [tick_thread EXCEPT !.pc = "idle"]
    /\ ticks' = ticks + 1
    /\ last_call' = Call("tick", 0, 0,
                         IF tick_thread.carry > 0 THEN Some(tick_thread.carry)
                         ELSE None)
    /\ UNCHANGED <<sec_wheel, min_wheel, task_tracker_map, panicked, adds,
                   added, freq, observed, threads, start>>

\* another thread loads the hand of one wheel: hand.load(Ordering::Relaxed)
\* in get_wheel_positions and hand_position
LoadHand(wheel_type) ==
    /\ observed' = Some([wheel_type |-> wheel_type,
                         hand |-> hand_position(WheelOf(wheel_type)),
                         num_slots |-> WheelOf(wheel_type).num_slots])
    /\ UNCHANGED <<sec_wheel, min_wheel, hour_wheel, task_tracker_map,
                   panicked, last_call, ticks, adds, added, freq, tick_thread,
                   threads, start>>

TickStep ==
    \/ TickSecFetchAdd
    \/ TickSecStore
    \/ TickMinFetchAdd
    \/ TickMinStore
    \/ TickMinRemove
    \/ TickMinMove
    \/ TickMinInsert
    \/ TickHourFetchAdd
    \/ TickHourStore
    \/ TickHourRemove
    \/ TickHourMove
    \/ TickHourInsert

ThreadStep ==
    \E t \in TaskIds :
        \/ ThreadAddLoad(t)
        \/ ThreadAddInsertSlot(t)
        \/ ThreadAddInsertIndex(t)
        \/ ThreadRemoveFromSlot(t)

InitThreads == \E hands \in ThreadHands : InitAt(hands)

NextThreads ==
    \/ TickStep
    \/ \E wheel_type \in {"Second", "Minute", "Hour"} : LoadHand(wheel_type)
    \/ \E seconds \in ThreadPeriods : ThreadAddCall(1, 1, seconds)
    \/ threads[1].pc = "done" /\ ThreadRemoveCall(2, 1)
    \/ ThreadStep

SpecThreads == InitThreads /\ [][NextThreads]_vars

\* ---- SpecCalls: tasks are placed, then thread t makes one call for task
\* t, add_task or remove_task, one shared access at a time, with no tick.
\* `start` keeps the timer as it was when the first of the calls began.
CallHands == {<<0, 0, 0>>, <<58, 59, 10>>}

CallPeriods == {2, 62, 3602}

\* the threads that make a call
CallThreads == {1, 2}

CallsPlace ==
    /\ start = None
    /\ adds < MaxAdds
    /\ \E task_id \in CallThreads, seconds \in CallPeriods :
           AddTask(task_id, seconds, Epoch)

CallsAdd ==
    \E t \in CallThreads, seconds \in CallPeriods : ThreadAddCall(t, t, seconds)

CallsRemove == \E t \in CallThreads : ThreadRemoveCall(t, t)

InitCalls == \E hands \in CallHands : InitAt(hands)

NextCalls == CallsPlace \/ CallsAdd \/ CallsRemove \/ ThreadStep

SpecCalls == InitCalls /\ [][NextCalls]_vars

\* ---- SpecLive: one add_task, then tick is called again and again; of the
\* number of ticks only the parity is kept, so that the hands come back to
\* where they stood, and no record of the last call is kept.
LiveHands == {<<0, 0, 0>>, <<58, 59, 23>>}

LivePeriods == {2, 62}

LiveAdd ==
    /\ adds = 0
    /\ ~panicked
    /\ \E seconds \in LivePeriods :
           /\ becomes(add_task(self_now, spwan_async(1, Once(seconds), Epoch),
                               Epoch).self)
           /\ added' = [added EXCEPT ![1] =
                            Some([next_alarm_sec |-> seconds, at |-> ticks])]
    /\ adds' = adds + 1
    /\ UNCHANGED <<last_call, ticks, freq, tick_thread, observed, threads, start>>

LiveTick ==
    LET r == tick(self_now)
    IN  /\ adds = 1
        /\ ~panicked
        /\ becomes(r.self)
        /\ ticks' = (ticks + 1) % 2
        /\ UNCHANGED <<last_call, adds, added, freq, tick_thread, observed,
                       threads, start>>

InitLive == \E hands \in LiveHands : InitAt(hands)

NextLive == LiveAdd \/ LiveTick

\* a step of LiveTick, told by what enables it and by the parity it flips:
\* tick has no precondition of its own, and no other step changes `ticks`
LiveTickCalled ==
    /\ adds = 1
    /\ ~panicked
    /\ ticks' = (ticks + 1) % 2

\* whoever drives the timer calls tick every second: a tick that can be
\* called is called
SpecLive == InitLive /\ [][NextLive]_vars /\ WF_ticks(LiveTickCalled)

\* ---- SpecCascade: add_task, remove_task and tick as in Spec, from hands
\* that point to the slots the tasks go to, and the index-updating cascades
\* cascade_minute_tasks and cascade_hour_tasks called directly.
CascadeHands == {<<0, 0, 0>>, <<58, 59, 23>>}

CascadePeriods == {62, 3602, 86400}

\* a call of cascade_minute_tasks
CascadeMinuteTasks ==
    /\ ~panicked
    /\ becomes(cascade_minute_tasks(self_now))
    /\ last_call' = Call("cascade_minute_tasks", 0, 0, None)
    /\ UNCHANGED <<ticks, adds, added, freq, tick_thread, observed, threads,
                   start>>

\* a call of cascade_hour_tasks
CascadeHourTasks ==
    /\ ~panicked
    /\ becomes(cascade_hour_tasks(self_now))
    /\ last_call' = Call("cascade_hour_tasks", 0, 0, None)
    /\ UNCHANGED <<ticks, adds, added, freq, tick_thread, observed, threads,
                   start>>

CascadeAdd ==
    /\ adds < MaxAdds
    /\ \E task_id \in TaskIds, seconds \in CascadePeriods :
           AddTask(task_id, seconds, Epoch)

InitCascade == \E hands \in CascadeHands : InitAt(hands)

NextCascade ==
    \/ CascadeAdd
    \/ RemoveTaskOp
    \/ TickOp
    \/ CascadeMinuteTasks
    \/ CascadeHourTasks

SpecCascade == InitCascade /\ [][NextCascade]_vars

\* ------------------------------------------------------------ the claims
\* the places <<wheel_type, slot_num>> where a task with this id is resident
Residences(self, id) ==
    {<<"Second", i>> : i \in {j \in DOMAIN self.sec_wheel.slots :
                                 id \in DOMAIN self.sec_wheel.slots[j].task_map}}
    \cup {<<"Minute", i>> : i \in {j \in DOMAIN self.min_wheel.slots :
                                 id \in DOMAIN self.min_wheel.slots[j].task_map}}
    \cup {<<"Hour", i>> : i \in {j \in DOMAIN self.hour_wheel.slots :
                                 id \in DOMAIN self.hour_wheel.slots[j].task_map}}

\* the task with this id resident at a place
TaskAt(self, place, id) ==
    IF place[1] = "Second" THEN self.sec_wheel.slots[place[2]].task_map[id]
    ELSE IF place[1] = "Minute" THEN self.min_wheel.slots[place[2]].task_map[id]
    ELSE self.hour_wheel.slots[place[2]].task_map[id]

\* the resident copies of a task: wheel, slot and round of each
Copies(self, id) ==
    {<<place[1], place[2], TaskAt(self, place, id).cascade_guide.round>> :
         place \in Residences(self, id)}

\* the task is in the seconds-wheel slot the second hand points to
UnderHand(self, id) ==
    /\ self.sec_wheel.hand \in DOMAIN self.sec_wheel.slots
    /\ id \in DOMAIN self.sec_wheel.slots[self.sec_wheel.hand].task_map

\* the reference computation of the guide and the placement policy, from
\* hands <<cs, cm, ch>> and a delay
Reference(hands, delay) ==
    LET total_sec == hands[1] + delay
        sec_final == total_sec % 60
        min_carry == total_sec \div 60
        total_min == hands[2] + min_carry
        min_final == total_min % 60
        hour_carry == total_min \div 60
        total_hour == hands[3] + hour_carry
        hour_final == total_hour % 24
        round == total_hour \div 24
    IN  IF round > 0 \/ hour_carry > 0
        THEN [wheel_type |-> "Hour", slot_num |-> hour_final,
              guide |-> [sec |-> sec_final, min |-> Some(min_final),
                         hour |-> Some(hour_final), round |-> round]]
        ELSE IF min_carry > 0
        THEN [wheel_type |-> "Minute", slot_num |-> min_final,
              guide |-> [sec |-> sec_final, min |-> Some(min_final),
                         hour |-> None, round |-> 0]]
        ELSE [wheel_type |-> "Second", slot_num |-> sec_final,
              guide |-> [sec |-> sec_final, min |-> None, hour |-> None,
                         round |-> 0]]

\* C1: a task added with delay D >= 1 and then left alone is in the
\* seconds-wheel slot under the second hand right after the D-th tick that
\* follows its add_task, and after none of the ticks before it.
C1_FiresAtDelay ==
    \A id \in TaskIds :
        is_some(added[id]) /\ unwrap(added[id]).next_alarm_sec >= 1 =>
            LET delay == unwrap(added[id]).next_alarm_sec
                elapsed == ticks - unwrap(added[id]).at
            IN  /\ elapsed = delay => UnderHand(self_now, id)
                /\ elapsed >= 1 /\ elapsed < delay => ~UnderHand(self_now, id)

\* C2: after every call of a sequence of add_task and remove_task calls, a
\* task id has an index entry iff a task with that id is resident, it is
\* resident in exactly one slot of one wheel, and the entry names that slot.
C2_IndexReflectsResidency ==
    ticks = 0 =>
        \A id \in TaskIds :
            LET places == Residences(self_now, id)
            IN  /\ id \in DOMAIN task_tracker_map <=> places # {}
                /\ places # {} =>
                       places = {<<task_tracker_map[id].wheel_type,
                                   task_tracker_map[id].slot_num>>}

\* C3: after a tick, the index entry of every task the tick moved to another
\* wheel or whose round it decremented names the wheel and the slot the task
\* is now in, with the task's new round in the entry's guide.
C3_TickUpdatesIndex ==
    [][last_call'.name = "tick" =>
          \A id \in DOMAIN task_tracker_map' :
              \A copy \in Copies(self_now, id)' \ Copies(self_now, id) :
                  copy = <<task_tracker_map'[id].wheel_type,
                           task_tracker_map'[id].slot_num,
                           task_tracker_map'[id].cascade_guide.round>>]_vars

\* C4: after add_task exactly one task with the id is resident, at the wheel
\* and slot computed for this call, and the index entry names that slot;
\* also when the id was already scheduled somewhere else.
C4_AddReplaces ==
    last_call.name = "add_task" /\ last_call.ret = "Ok" =>
        LET id == last_call.task_id
            ref == Reference(last_call.hands, last_call.next_alarm_sec)
        IN  /\ Residences(self_now, id) = {<<ref.wheel_type, ref.slot_num>>}
            /\ id \in DOMAIN task_tracker_map
            /\ task_tracker_map[id].wheel_type = ref.wheel_type
            /\ task_tracker_map[id].slot_num = ref.slot_num

\* C5: after remove_task(id) has returned Some(task), no slot of any wheel
\* holds a task with that id and the index has no entry for it.
C5_RemoveClears ==
    last_call.name = "remove_task" /\ is_some(last_call.ret) =>
        /\ Residences(self_now, last_call.task_id) = {}
        /\ last_call.task_id \notin DOMAIN task_tracker_map

\* C6: for the id of a resident task, remove_task returns Some, a second
\* remove_task right after it returns None, and get_task_tracking_info then
\* returns None.
C6_RemoveIdempotent ==
    \A id \in TaskIds :
        Residences(self_now, id) # {} =>
            LET first == remove_task(self_now, id)
                second == remove_task(first.self, id)
            IN  /\ is_some(first.ret)
                /\ ~is_some(second.ret)
                /\ ~is_some(get_task_tracking_info(second.self, id))

\* C7: from hands (0, 0, 0), after N ticks and no insertion the seconds hand
\* is N mod 60, the minute hand (N / 60) mod 60 and the hour hand
\* (N / 3600) mod 24; every hand is within its wheel's slots.
C7_HandsAfterTicks ==
    /\ sec_wheel.hand = ticks % 60
    /\ min_wheel.hand = (ticks \div 60) % 60
    /\ hour_wheel.hand = (ticks \div 3600) % 24
    /\ sec_wheel.hand \in 0..(sec_wheel.num_slots - 1)
    /\ min_wheel.hand \in 0..(min_wheel.num_slots - 1)
    /\ hour_wheel.hand \in 0..(hour_wheel.num_slots - 1)

\* an hour, a minute and a second of ticks: the seconds and the minute hand
\* have wrapped around and every hand has moved
C7_Witness ==
    /\ last_call.name = "tick"
    /\ ticks = 3661
    /\ get_wheel_positions(self_now) = <<1, 1, 1>>

\* C8: add_task, remove_task and get_task_tracking_info leave every hand
\* where it was before the call; a hand differs only after a tick.
C8_OnlyTickMovesHands ==
    last_call.name \in {"add_task", "remove_task", "get_task_tracking_info"} =>
        get_wheel_positions(self_now) = last_call.hands

\* an add_task that placed a task and a remove_task that took one out, both
\* after a tick has moved the hands
C8_Witness ==
    /\ ticks > 0
    /\ \/ last_call.name = "add_task" /\ Residences(self_now, last_call.task_id) # {}
       \/ last_call.name = "remove_task" /\ is_some(last_call.ret)

\* C9: cal_next_hand_position returns the guide of the reference computation,
\* and add_task puts the task in the wheel and slot of the placement policy
\* with that guide, for every in-range hand position and delay >= 0.
C9_PlacementPolicy ==
    last_call.name = "add_task" =>
        LET id == last_call.task_id
            ref == Reference(last_call.hands, last_call.next_alarm_sec)
        IN  /\ cal_next_hand_position(self_now, last_call.next_alarm_sec) = ref.guide
            /\ Residences(self_now, id) = {<<ref.wheel_type, ref.slot_num>>}
            /\ TaskAt(self_now, <<ref.wheel_type, ref.slot_num>>, id).cascade_guide
                   = ref.guide
            /\ task_tracker_map[id] =
                   TaskTrackingInfo(id, ref.guide, ref.wheel_type, ref.slot_num)

\* a delay of more than a day, placed in the hour wheel with round 2
C9_Witness ==
    /\ last_call.name = "add_task"
    /\ last_call.hands = <<40, 30, 20>>
    /\ last_call.next_alarm_sec = 100000
    /\ Residences(self_now, 1) = {<<"Hour", 0>>}
    /\ task_tracker_map[1].cascade_guide =
           [sec |-> 20, min |-> Some(17), hour |-> Some(0), round |-> 2]

\* C10: the guide add_task got from cal_next_hand_position gives the delay
\* back: D = (sec - cs) + 60 (m - cm) + 3600 (h + 24 round - ch), with m the
\* guide's min, or cm when absent, and h its hour, or ch when absent.
C10_GuideRoundTrip ==
    last_call.name = "add_task" =>
        LET guide == task_tracker_map[last_call.task_id].cascade_guide
            cs == last_call.hands[1]
            cm == last_call.hands[2]
            ch == last_call.hands[3]
            m == IF is_some(guide.min) THEN unwrap(guide.min) ELSE cm
            h == IF is_some(guide.hour) THEN unwrap(guide.hour) ELSE ch
        IN  last_call.next_alarm_sec =
                (guide.sec - cs) + 60 * (m - cm) + 3600 * (h + 24 * guide.round - ch)

\* a delay of a whole day at the last second of the day: every component of
\* the guide is present and the hands' values come back a round later
C10_Witness ==
    /\ last_call.name = "add_task"
    /\ last_call.hands = <<59, 59, 23>>
    /\ last_call.next_alarm_sec = 86400
    /\ task_tracker_map[1].cascade_guide =
           [sec |-> 59, min |-> Some(59), hour |-> Some(23), round |-> 1]

TimeOfDay == sec_wheel.hand + 60 * min_wheel.hand + 3600 * hour_wheel.hand

\* the ticks since the add_task of task id (at most two days)
Elapsed(id) == ticks - unwrap(added[id]).at

\* the guide that add_task gave task id: the hands stood Elapsed(id) seconds
\* before where they stand now
PlacedGuide(id) ==
    LET t0 == (TimeOfDay + 2 * 24 * 3600 - Elapsed(id)) % (24 * 3600)
        hands == <<t0 % 60, (t0 \div 60) % 60, t0 \div 3600>>
    IN  cal_next_hand_position(set_wheel_positions(hands),
                               unwrap(added[id]).next_alarm_sec)

\* the number of ticks after the add_task of task id that have brought the
\* hour hand to the hour slot of its guide
Encounters(id) ==
    LET t0 == (TimeOfDay + 2 * 24 * 3600 - Elapsed(id)) % (24 * 3600)
        target == 3600 * unwrap(PlacedGuide(id).hour)
        first == ((target + 24 * 3600 - t0 - 1) % (24 * 3600)) + 1
    IN  IF Elapsed(id) < first
        THEN 0
        ELSE 1 + ((Elapsed(id) - first) \div (24 * 3600))

C13_TickNeverFails ==
    /\ DOMAIN sec_wheel.slots = 0..59
    /\ DOMAIN min_wheel.slots = 0..59
    /\ DOMAIN hour_wheel.slots = 0..23
    /\ \A slot_num \in DOMAIN hour_wheel.slots :
           \A id \in DOMAIN hour_wheel.slots[slot_num].task_map :
               LET guide == hour_wheel.slots[slot_num].task_map[id].cascade_guide
               IN  is_some(guide.min) /\ unwrap(guide.min) \in DOMAIN min_wheel.slots
    /\ \A slot_num \in DOMAIN min_wheel.slots :
           \A id \in DOMAIN min_wheel.slots[slot_num].task_map :
               min_wheel.slots[slot_num].task_map[id].cascade_guide.sec
                   \in DOMAIN sec_wheel.slots
    /\ last_call.name = "tick" => ~panicked
    /\ ~tick(self_now).self.panicked

\* a tick has moved the minute and the hour hand, and its hour cascade has
\* put a task that add_task had placed in the hour wheel into the minute
\* wheel
C13_Witness ==
    /\ last_call.name = "tick"
    /\ last_call.hands[1] = 59
    /\ last_call.hands[2] = 59
    /\ ~panicked
    /\ \E id \in TaskIds :
           \E place \in Residences(self_now, id) :
               /\ place[1] = "Minute"
               /\ is_some(TaskAt(self_now, place, id).cascade_guide.hour)

\* a call that takes a timestamp from the FrequencyState
TakesTimestamp(call) == call.op \in {"next", "add_task"}

\* the calls of next_alarm_timestamp made so far on the FrequencyState, by
\* the caller or inside add_task
Nexts == SelectSeq(freq.calls, TakesTimestamp)

\* C14: the timestamps that successive next_alarm_timestamp calls return on
\* a frequency with period p built at Epoch are Epoch + p, Epoch + 2 p, ...:
\* the first is Epoch + p and each is p after the one before.
C14_TimestampsOnePeriodApart ==
    freq.ret = "Ok" =>
        \A i \in 1..Len(Nexts) :
            is_some(Nexts[i].ret) =>
                unwrap(Nexts[i].ret) = Epoch + i * unwrap(freq.from).seconds

\* C15: on a CountDown(n, p) frequency the first n next_alarm_timestamp
\* calls return Some and every later call returns None, and each call takes
\* one from the remaining count.
C15_CountDownYieldsCount ==
    (freq.ret = "Ok" /\ unwrap(freq.from).kind = "CountDown") =>
        LET n == unwrap(freq.from).count_down
        IN  /\ \A i \in 1..Len(Nexts) : is_some(Nexts[i].ret) <=> i <= n
            /\ unwrap(freq.frequency).count
                   = IF Len(Nexts) < n THEN n - Len(Nexts) ELSE 0

\* C16: on a Once(d) frequency built at Epoch the first next_alarm_timestamp
\* returns Epoch + d and every later call returns None; an add_task after
\* the first timestamp was taken leaves the wheels and the index unchanged.
C16_OnceFiresOnce ==
    (freq.ret = "Ok" /\ unwrap(freq.from).kind = "Once") =>
        \A i \in 1..Len(Nexts) :
            IF i = 1
            THEN Nexts[i].ret = Some(Epoch + unwrap(freq.from).seconds)
            ELSE /\ Nexts[i].ret = None
                 /\ Nexts[i].op = "add_task" => Nexts[i].unchanged

\* C17: a call that follows a peek_alarm_timestamp, be it another peek or
\* the next_alarm_timestamp, returns the value the peek returned; every peek
\* after a next_alarm_timestamp returns a later value than that call did.
C17_PeekDoesNotConsume ==
    freq.ret = "Ok" =>
        /\ \A i \in 1..(Len(freq.calls) - 1) :
               freq.calls[i].op = "peek" =>
                   /\ is_some(freq.calls[i].ret)
                   /\ freq.calls[i + 1].ret = freq.calls[i].ret
        /\ \A i, j \in 1..Len(freq.calls) :
               (i < j /\ TakesTimestamp(freq.calls[i]) /\ freq.calls[j].op = "peek")
                   => /\ is_some(freq.calls[i].ret)
                      /\ is_some(freq.calls[j].ret)
                      /\ unwrap(freq.calls[j].ret) > unwrap(freq.calls[i].ret)

\* two peeks, the next_alarm_timestamp and a peek after it
C17_Witness ==
    /\ freq.ret = "Ok"
    /\ Len(freq.calls) = 4
    /\ freq.calls[1].op = "peek"
    /\ freq.calls[2].op = "peek"
    /\ freq.calls[3].op = "next"
    /\ freq.calls[4].op = "peek"
    /\ freq.calls[4].ret # freq.calls[3].ret

\* C19: spwan_async of a builder whose frequency has a zero period returns
\* Err(InvalidFrequency).
C19_ZeroPeriodIsAnError ==
    (is_some(freq.from) /\ unwrap(freq.from).seconds = 0) => freq.ret = "Err"

\* C18: an add_task whose task's timestamp is not later than the time of
\* the call returns Ok and leaves the task in the seconds slot that the
\* second hand points to, with a guide that has no min and no hour.
C18_LateAddGoesUnderHand ==
    (last_call.name = "add_task" /\ last_call.next_alarm_sec <= 0) =>
        LET id == last_call.task_id
            place == <<"Second", last_call.hands[1]>>
        IN  /\ last_call.ret = "Ok"
            /\ ~panicked
            /\ Residences(self_now, id) = {place}
            /\ TaskAt(self_now, place, id).cascade_guide.sec = last_call.hands[1]
            /\ TaskAt(self_now, place, id).cascade_guide.min = None
            /\ TaskAt(self_now, place, id).cascade_guide.hour = None

\* C20: every hand that a thread loads while another thread is inside tick
\* is a slot number of its wheel, in 0..num_slots - 1.
C20_LoadedHandInRange ==
    is_some(observed) =>
        unwrap(observed).hand \in 0..(unwrap(observed).num_slots - 1)

\* C21: a task whose add_task ran concurrently with a tick arrives under the
\* second hand at its intended second or one second later: the call returns
\* Ok, nothing panics, and once the tick thread has finished the tick one
\* after the task's delay the task is in the seconds slot the hand points
\* to or in the one before it.  Calls that loaded a hand outside its wheel
\* (C20) are left aside.
C21_ConcurrentAddArrives ==
    LET th == threads[1]
        hand == sec_wheel.hand
        before == (hand + sec_wheel.num_slots - 1) % sec_wheel.num_slots
    IN  (/\ th.op = "add_task"
         /\ th.pc = "done"
         /\ th.pos[1] < sec_wheel.num_slots
         /\ th.pos[2] < min_wheel.num_slots
         /\ th.pos[3] < hour_wheel.num_slots
         /\ threads[2].pc = "idle"
         /\ tick_thread.pc = "idle"
         /\ ticks = th.t0 + th.seconds + 1) =>
            /\ th.ret = "Ok"
            /\ ~panicked
            /\ \E slot_num \in {hand, before} :
                   <<"Second", slot_num>> \in Residences(self_now, th.task_id)

\* the wheel contents and the tracking index of a timer
Contents(self) ==
    <<self.sec_wheel, self.min_wheel, self.hour_wheel, self.task_tracker_map>>

\* the call of a thread, run alone as one step on a timer
RunAlone(self, th) ==
    IF th.op = "add_task"
    THEN add_task(self, spwan_async(th.task_id, Once(th.seconds), Epoch), Epoch).self
    ELSE remove_task(self, th.task_id).self

\* C22: when the concurrent add_task and remove_task calls on distinct task
\* ids have all returned, the wheel contents and the tracking index are
\* those of running the same calls one after the other, in one order or in
\* the other, from the state in which the first call began.
C22_CallsSerialize ==
    (\A t \in CallThreads : threads[t].pc = "done") =>
        /\ ~panicked
        /\ \/ Contents(self_now) =
                  Contents(RunAlone(RunAlone(unwrap(start), threads[1]), threads[2]))
           \/ Contents(self_now) =
                  Contents(RunAlone(RunAlone(unwrap(start), threads[2]), threads[1]))

\* two calls that overlapped have returned, an add_task and a remove_task
\* that found its task, and the task added is in the slot the removed one
\* was in
C22_Witness ==
    /\ \A t \in CallThreads : threads[t].pc = "done"
    /\ threads[2].overlap
    /\ threads[1].op = "add_task"
    /\ threads[2].op = "remove_task"
    /\ threads[2].ret = "Some"
    /\ <<unwrap(threads[2].info).wheel_type, unwrap(threads[2].info).slot_num>>
           \in Residences(self_now, 1)

\* C23: within one tick the minute cascade is over before the hour cascade
\* and no task moves twice: a task that is in the hour wheel before a tick
\* is in the hour wheel or in the minute wheel after it, never in the
\* seconds wheel, and a task that is in the minute wheel before a tick is
\* after it in the same minute slot or in the seconds slot guide.sec, in
\* one slot only.  Tasks resident in one slot are considered.
C23_NoTaskMovesTwice ==
    [][(ticks' = ticks + 1) =>
          \A id \in TaskIds :
              \A place \in Residences(self_now, id) :
                  (Residences(self_now, id) = {place}) =>
                      LET after == Residences(self_now, id)'
                          guide == TaskAt(self_now, place, id).cascade_guide
                      IN  /\ Cardinality(after) = 1
                          /\ place[1] = "Hour" =>
                                 \A q \in after : q[1] \in {"Hour", "Minute"}
                          /\ place[1] = "Minute" =>
                                 \/ after = {place}
                                 \/ after = {<<"Second", guide.sec>>}]_vars

\* a tick carried into the hour wheel and has just moved task 1 from the
\* hour slot its index entry still names into the minute slot the minute
\* hand points to, where it stays
C23_Witness ==
    /\ last_call.name = "tick"
    /\ sec_wheel.hand = 0
    /\ min_wheel.hand = 0
    /\ is_some(map_get(task_tracker_map, 1))
    /\ unwrap(map_get(task_tracker_map, 1)).wheel_type = "Hour"
    /\ unwrap(map_get(task_tracker_map, 1)).slot_num = hour_wheel.hand
    /\ Residences(self_now, 1) = {<<"Minute", min_wheel.hand>>}

\* C24: for every task resident in a wheel, the hour component of its guide
\* is present exactly when the task is in the hour wheel.
C24_HourPresentIffInHourWheel ==
    \A id \in TaskIds :
        \A place \in Residences(self_now, id) :
            is_some(TaskAt(self_now, place, id).cascade_guide.hour)
                <=> (place[1] = "Hour")

\* C25: when tick keeps being called and the task is not removed, a task
\* that add_task has placed, in whatever wheel and with whatever round, is
\* eventually in the seconds slot the second hand points to.
C25_EventuallyUnderHand ==
    is_some(added[1]) ~> UnderHand(self_now, 1)

\* the task that add_task put in the minute wheel (where its index entry
\* still says it is) has come under the second hand
C25_Witness ==
    /\ is_some(added[1])
    /\ unwrap(map_get(task_tracker_map, 1)).wheel_type = "Minute"
    /\ UnderHand(self_now, 1)

\* C26: in every state a thread can observe, the states inside a tick's
\* cascade included, every wheel has a slot at every position
\* 0..num_slots - 1; no add_task has failed on a missing slot, and no
\* remove_task has returned None for a task that was resident in the slot
\* its index entry named.
C26_SlotsAlwaysPresent ==
    /\ DOMAIN sec_wheel.slots = 0..(sec_wheel.num_slots - 1)
    /\ DOMAIN min_wheel.slots = 0..(min_wheel.num_slots - 1)
    /\ DOMAIN hour_wheel.slots = 0..(hour_wheel.num_slots - 1)
    /\ \A t \in TaskIds :
           /\ threads[t].op = "add_task" => threads[t].ret # "panic"
           /\ (threads[t].op = "remove_task" /\ threads[t].pc = "done"
               /\ threads[t].resident) => threads[t].ret = "Some"

\* C27: tick conserves tasks: from a state in which every task id is
\* resident in at most one slot, a tick leaves every id that was resident
\* in exactly one slot and every other id in none, so the set of resident
\* ids is the same before and after.
C27_TickConservesTasks ==
    [][(/\ ticks' = ticks + 1
        /\ \A id \in TaskIds : Cardinality(Residences(self_now, id)) <= 1) =>
          \A id \in TaskIds :
              Cardinality(Residences(self_now, id)')
                  = Cardinality(Residences(self_now, id))]_vars

\* a tick has just moved task 1 out of the minute slot its index entry
\* names into the seconds wheel, where it is in one slot, while task 2 is
\* resident in one slot as well
C27_Witness ==
    /\ last_call.name = "tick"
    /\ is_some(map_get(task_tracker_map, 1))
    /\ unwrap(map_get(task_tracker_map, 1)).wheel_type = "Minute"
    /\ unwrap(map_get(task_tracker_map, 1)).slot_num = min_wheel.hand
    /\ sec_wheel.hand = 0
    /\ \E slot_num \in DOMAIN sec_wheel.slots :
           Residences(self_now, 1) = {<<"Second", slot_num>>}
    /\ Cardinality(Residences(self_now, 2)) = 1

\* the three wheels of a timer: slots with their tasks and guides, hands
WheelsOf(self) == <<self.sec_wheel, self.min_wheel, self.hour_wheel>>

\* C28: a call of cascade_minute_tasks or cascade_hour_tasks leaves the
\* wheels, with every task's guide, as cascade_minute_tasks_internal or
\* cascade_hour_tasks_internal leaves them from the same state, whether or
\* not the resident tasks have index entries.
C28_CascadesMoveAlike ==
    [][/\ last_call'.name = "cascade_minute_tasks" =>
              WheelsOf(self_now)' = WheelsOf(cascade_minute_tasks_internal(self_now))
       /\ last_call'.name = "cascade_hour_tasks" =>
              WheelsOf(self_now)' = WheelsOf(cascade_hour_tasks_internal(self_now))
      ]_vars

====
